---- MODULE Spec2Model ----
(***************************************************************************)
(* Model of the music agent's result-selection and continuation engine:    *)
(*   src/app/tools/music_tools.py   _pick_unique_tracks, search_music_api, *)
(*                                  format_tracks_response                 *)
(*   src/app/utils/memory_store.py  MemoryStore.load / MemoryStore.save    *)
(*                                                                         *)
(* Spec         one search_music_api call, one action per loop iteration,  *)
(*              for every argument tuple and every upstream behaviour.     *)
(* SessionSpec  serialized turns on one session: load the continuation     *)
(*              state, run the driver, merge and save on success.          *)
(***************************************************************************)
EXTENDS Integers, Sequences, FiniteSets, TLC

\* ------------------------------------------------------------------ bounds
MaxId == 3
MaxN == 2
MaxPageSize == 2
MaxStartIndex == 1
MaxPages == 2
MaxSaves == 3
SessionN == 2
SessionPageSize == 1
SessionMaxPages == 2

\* ------------------------------------------------------- program constants
\* dict.get() on a missing key, and a JSON null: Python's None.
None == -1

MsgUnavailable == "Sorry, I couldn't process your request right now. Please try again later."
MsgNoNewSongs == "Sorry, no new songs found matching your search (after filtering repeats)."
MsgNoSongs == "<p>Sorry, I couldn't find any songs for your request.</p>"

\* ----------------------------------------------------------------- helpers
Range(s) == {s[i] : i \in 1..Len(s)}

\* d.get(k, default) on a dict.
Get(d, k, default) == IF k \in DOMAIN d THEN d[k] ELSE default

\* --------------------------------------------------------- upstream values
\* The JSON values of a track's title, artist and link: a string, null, or
\* an object.
JStr(s) == [str |-> s]
JNull == [null |-> TRUE]
JDict(d) == [dict |-> d]

\* What an f-string puts in the text for a value: the string itself, and
\* "None" for None.
Str(v) == IF "str" \in DOMAIN v THEN v.str ELSE "None"

\* Only a dict has a .get method.
HasGet(v) == "dict" \in DOMAIN v

HasStr(v) == "str" \in DOMAIN v

\* An exception that leaves the function.
Raised(exception) == [status |-> "raised", exception |-> exception]
Raises(value) == "exception" \in DOMAIN value

Ids == 1..MaxId

\* A track object of the upstream "data" array: records with an id, with an
\* id and "artist": null, one with "id": null and one without the key.
Tracks ==
    {[id |-> i] : i \in Ids} \cup {[id |-> i, artist |-> JNull] : i \in Ids}
    \cup {[id |-> None], [title |-> JStr("Untitled")]}

\* The "data" arrays a request with limit = size can be answered with.
Pages(size) == UNION {[1..k -> Tracks] : k \in 0..size}

VARIABLES
    \* arguments of the search_music_api call in progress
    query, exclude_track_ids, n, page_size, start_index, max_pages,
    \* its locals
    exclude_ids, selected, index, iter,
    \* "idle" | "loop" | "after" | "done"
    pc,
    \* the value returned
    result,
    \* what the call did: the (q, limit, index) of every request sent, how
    \* the loop ended, what the pages received so far were like, and the
    \* non-empty "data" arrays received, in order
    requests, loop_exit, upstream_obs, fetched,
    \* the session's blob in the bucket, and the clock of _now_iso, which
    \* ticks with every save
    store, clock,
    \* the turn in progress: "idle" | "found" (its load has been told the
    \* blob exists) | "loaded" | "searching", the state it loaded and whether
    \* it is an intent search or a "more"
    turn_pc, mem, turn_kind,
    \* what the session did: how many times each id was returned in a batch,
    \* and the highest offset requested by the successful calls, and by all
    \* calls, of the current chain (None when there is none)
    shown, chain_offset, chain_tried,
    \* turns that loaded the state and have not searched yet, and whether a
    \* turn has run between the load and the save of another
    pending, overlapped,
    \* the intent operation in progress: its name, the value it was given,
    \* the value first typed in its chain, whether it replays a context,
    \* "idle" | "genre" | "mood" | "search" | "done", the context it will
    \* attach, the value returned and every upstream call made for it
    op, op_input, op_typed, op_more, op_args, op_pc, op_context, op_result, op_log,
    \* the exclude_track_ids, n, page_size and start_index it was called
    \* with, and what the genre search of the fallback had selected and
    \* scanned when the mood search took over
    op_left,
    \* format_tracks_response on its own: the tracks given, the value returned
    fmt_tracks, fmt_out,
    \* _pick_unique_tracks on its own: the exclusion set the calls are given,
    \* as it is now, and for every call its arguments, the set before and
    \* after it, and the list returned
    pick_exclude_ids, pick_log

driver_vars == <<query, exclude_track_ids, n, page_size, start_index, max_pages,
                 exclude_ids, selected, index, iter, pc, result,
                 requests, loop_exit, upstream_obs, fetched>>

session_vars == <<store, clock, turn_pc, mem, turn_kind, shown, chain_offset, chain_tried>>

race_vars == <<pending, overlapped>>

intent_vars == <<op, op_input, op_typed, op_more, op_args, op_pc, op_context, op_result, op_log,
                 op_left>>

format_vars == <<fmt_tracks, fmt_out>>

pick_vars == <<pick_exclude_ids, pick_log>>

\* Everything outside the frame of search_music_api.
caller_vars == <<session_vars, race_vars, intent_vars, format_vars, pick_vars>>

vars == <<driver_vars, caller_vars>>

\* -------------------------------------------------- _pick_unique_tracks
\* The loop of lines 14-23 from candidate i on; returns the picked list and the
\* exclusion set as the call leaves it (the set is mutated in place).
RECURSIVE PickLoop(_, _, _, _, _)
PickLoop(tracks, i, picked, excl, need) ==
    IF i > Len(tracks) THEN [picked |-> picked, exclude_ids |-> excl]
    ELSE LET tid == Get(tracks[i], "id", None) IN
         IF tid = None THEN PickLoop(tracks, i + 1, picked, excl, need)
         ELSE IF tid \in excl THEN PickLoop(tracks, i + 1, picked, excl, need)
         ELSE LET picked2 == Append(picked, tracks[i])
                  excl2 == excl \cup {tid}
              IN IF Len(picked2) = need
                 THEN [picked |-> picked2, exclude_ids |-> excl2]
                 ELSE PickLoop(tracks, i + 1, picked2, excl2, need)

\* Mutant: the test of line 18 is dropped.
RECURSIVE PickLoopNoExclusion(_, _, _, _, _)
PickLoopNoExclusion(tracks, i, picked, excl, need) ==
    IF i > Len(tracks) THEN [picked |-> picked, exclude_ids |-> excl]
    ELSE LET tid == Get(tracks[i], "id", None) IN
         IF tid = None THEN PickLoopNoExclusion(tracks, i + 1, picked, excl, need)
         ELSE LET picked2 == Append(picked, tracks[i])
                  excl2 == excl \cup {tid}
              IN IF Len(picked2) = need
                 THEN [picked |-> picked2, exclude_ids |-> excl2]
                 ELSE PickLoopNoExclusion(tracks, i + 1, picked2, excl2, need)

_pick_unique_tracks_NoExclusion(tracks, excl, need) ==
    PickLoopNoExclusion(tracks, 1, <<>>, excl, need)

\* Mutant: line 21 is dropped, the picked ids are not added to the set.
RECURSIVE PickLoopNoAdd(_, _, _, _, _)
PickLoopNoAdd(tracks, i, picked, excl, need) ==
    IF i > Len(tracks) THEN [picked |-> picked, exclude_ids |-> excl]
    ELSE LET tid == Get(tracks[i], "id", None) IN
         IF tid = None THEN PickLoopNoAdd(tracks, i + 1, picked, excl, need)
         ELSE IF tid \in excl THEN PickLoopNoAdd(tracks, i + 1, picked, excl, need)
         ELSE LET picked2 == Append(picked, tracks[i])
              IN IF Len(picked2) = need
                 THEN [picked |-> picked2, exclude_ids |-> excl]
                 ELSE PickLoopNoAdd(tracks, i + 1, picked2, excl, need)

_pick_unique_tracks_NoAdd(tracks, excl, need) == PickLoopNoAdd(tracks, 1, <<>>, excl, need)

\* Mutant: the scan starts at the second candidate.
_pick_unique_tracks_SkipsFirst(tracks, excl, need) == PickLoop(tracks, 2, <<>>, excl, need)

_pick_unique_tracks(tracks, excl, need) == PickLoop(tracks, 1, <<>>, excl, need)

\* ------------------------------------------------ format_tracks_response
\* Line 294: track.get("artist", {}) is not a dict, and .get on it raises
\* AttributeError.
RowRaises(track) == "artist" \in DOMAIN track /\ ~HasGet(track.artist)

\* Lines 293-303: the row of a track whose artist, if any, is a dict.
FormatRow(track) ==
    [title |-> Str(Get(track, "title", JStr("Unknown Title"))),
     artist |-> Str(Get(Get(track, "artist", JDict(<<>>)).dict, "name", JStr("Unknown Artist"))),
     link |-> Str(Get(track, "link", JStr("#")))]

format_tracks_response(tracks) ==
    IF tracks = <<>> THEN [text |-> MsgNoSongs, rows |-> <<>>]
    ELSE IF \E i \in 1..Len(tracks) : RowRaises(tracks[i]) THEN Raised("AttributeError")
    ELSE [text |-> "<p>Here are some songs for you:</p>",
          rows |-> [i \in 1..Len(tracks) |-> FormatRow(tracks[i])]]

\* ------------------------------------------------------ search_music_api
TrackId(t) == Get(t, "id", None)

\* [t.get("id") for t in tracks]
TrackIds(tracks) == [i \in 1..Len(tracks) |-> TrackId(tracks[i])]

\* Line 89.
SelectedTrackIds(tracks) == SelectSeq(TrackIds(tracks), LAMBDA x : x # None)

\* Mutant: the offset of the last page fetched is returned.
NextIndex_LastPage(idx, size) == idx

\* Mutant: the offset restarts after the first page.
NextIndex_FirstPage(idx, size) == size

\* Line 91.
NextIndex(idx, size) == idx + size

ErrorResult(msg) == [status |-> "error", error_message |-> msg]

SuccessResult ==
    [status |-> "success",
     tracks |-> selected,
     selected_track_ids |-> SelectedTrackIds(selected),
     query |-> query,
     next_index |-> NextIndex(index, page_size),
     response_text |-> format_tracks_response(selected)]

NoResult == [status |-> "none"]

\* What a page adds to the record of the upstream's behaviour.
ObservePage(obs, page) ==
    LET ids == TrackIds(page) IN
    [full |-> obs.full /\ Len(page) >= page_size,
     nodup |-> obs.nodup /\ \A i, j \in 1..Len(page) : i # j => ids[i] # ids[j],
     with_ids |-> obs.with_ids /\ None \notin Range(ids),
     fresh |-> obs.fresh /\ Range(ids) \cap exclude_track_ids = {},
     repeated |-> obs.repeated \/ Range(ids) \cap (exclude_ids \ exclude_track_ids) # {}]

NoPagesYet ==
    [full |-> TRUE, nodup |-> TRUE, with_ids |-> TRUE, fresh |-> TRUE, repeated |-> FALSE]

\* Mutant: the exclusion set starts empty.
Enter_IgnoresExclusions(q, excl, want, size, start, pages) ==
    /\ query' = q
    /\ exclude_track_ids' = excl
    /\ n' = want
    /\ page_size' = size
    /\ start_index' = start
    /\ max_pages' = pages
    /\ exclude_ids' = {}
    /\ selected' = <<>>
    /\ index' = start
    /\ iter' = 0
    /\ pc' = "loop"
    /\ result' = NoResult
    /\ requests' = <<>>
    /\ loop_exit' = "none"
    /\ upstream_obs' = NoPagesYet
    /\ fetched' = <<>>

\* Lines 44-46: the locals of a call with the given arguments.
Enter(q, excl, want, size, start, pages) ==
    /\ query' = q
    /\ exclude_track_ids' = excl
    /\ n' = want
    /\ page_size' = size
    /\ start_index' = start
    /\ max_pages' = pages
    /\ exclude_ids' = excl
    /\ selected' = <<>>
    /\ index' = start
    /\ iter' = 0
    /\ pc' = "loop"
    /\ result' = NoResult
    /\ requests' = <<>>
    /\ loop_exit' = "none"
    /\ upstream_obs' = NoPagesYet
    /\ fetched' = <<>>

\* A caller invokes the driver with arguments of its choice.
Call ==
    /\ pc = "idle"
    /\ \E excl \in SUBSET Ids, want \in 0..MaxN, size \in 1..MaxPageSize,
          start \in 0..MaxStartIndex, pages \in 0..MaxPages :
          Enter("q", excl, want, size, start, pages)
    /\ UNCHANGED caller_vars

\* Lines 51-55: GET /search with q, limit and index.
SendRequest ==
    requests' = Append(requests, [q |-> query, limit |-> page_size, index |-> index])

\* Mutant: a failed request ends the loop and what was selected is returned.
FetchFails_KeepsPartial ==
    /\ pc = "loop"
    /\ iter < max_pages
    /\ SendRequest
    /\ loop_exit' = "failed"
    /\ pc' = IF selected = <<>> THEN "done" ELSE "after"
    /\ result' = IF selected = <<>> THEN ErrorResult(MsgUnavailable) ELSE result
    /\ UNCHANGED <<query, exclude_track_ids, n, page_size, start_index, max_pages,
                   exclude_ids, selected, index, iter, upstream_obs, fetched>>
    /\ UNCHANGED caller_vars

\* Lines 51-56 raise requests.RequestException: lines 72-76.
FetchFails ==
    /\ pc = "loop"
    /\ iter < max_pages
    /\ SendRequest
    /\ result' = ErrorResult(MsgUnavailable)
    /\ loop_exit' = "failed"
    /\ pc' = "done"
    /\ UNCHANGED <<query, exclude_track_ids, n, page_size, start_index, max_pages,
                   exclude_ids, selected, index, iter, upstream_obs, fetched>>
    /\ UNCHANGED caller_vars

\* Lines 59-61: the page has no tracks.
FetchEmpty ==
    /\ pc = "loop"
    /\ iter < max_pages
    /\ SendRequest
    /\ loop_exit' = "empty"
    /\ pc' = "after"
    /\ UNCHANGED <<query, exclude_track_ids, n, page_size, start_index, max_pages,
                   exclude_ids, selected, index, iter, result, upstream_obs, fetched>>
    /\ UNCHANGED caller_vars

\* Mutant: line 44 does not copy, the filter works on the caller's ids.
FetchPage_OnCallersIds(page) ==
    /\ pc = "loop"
    /\ iter < max_pages
    /\ page # <<>>
    /\ SendRequest
    /\ LET need == n - Len(selected)
           got == _pick_unique_tracks(page, exclude_ids, need)
           selected2 == selected \o got.picked
       IN /\ selected' = selected2
          /\ exclude_ids' = got.exclude_ids
          /\ exclude_track_ids' = got.exclude_ids
          /\ IF Len(selected2) >= n
             THEN /\ loop_exit' = "reached"
                  /\ pc' = "after"
                  /\ UNCHANGED <<index, iter>>
             ELSE /\ index' = index + page_size
                  /\ iter' = iter + 1
                  /\ UNCHANGED <<loop_exit, pc>>
    /\ UNCHANGED <<query, n, page_size, start_index, max_pages, result>>
    /\ UNCHANGED caller_vars

\* Mutant: the loop goes on after n tracks are selected.
FetchPage_KeepsFetching(page) ==
    /\ pc = "loop"
    /\ iter < max_pages
    /\ page # <<>>
    /\ SendRequest
    /\ LET need == n - Len(selected)
           got == _pick_unique_tracks(page, exclude_ids, need)
       IN /\ selected' = selected \o got.picked
          /\ exclude_ids' = got.exclude_ids
          /\ index' = index + page_size
          /\ iter' = iter + 1
          /\ UNCHANGED <<loop_exit, pc>>
    /\ UNCHANGED <<query, exclude_track_ids, n, page_size, start_index, max_pages, result>>
    /\ UNCHANGED caller_vars

\* Mutant: the offset advances by one track, not by one page.
FetchPage_AdvancesByOne(page) ==
    /\ pc = "loop"
    /\ iter < max_pages
    /\ page # <<>>
    /\ SendRequest
    /\ LET need == n - Len(selected)
           got == _pick_unique_tracks(page, exclude_ids, need)
           selected2 == selected \o got.picked
       IN /\ selected' = selected2
          /\ exclude_ids' = got.exclude_ids
          /\ IF Len(selected2) >= n
             THEN /\ loop_exit' = "reached"
                  /\ pc' = "after"
                  /\ UNCHANGED <<index, iter>>
             ELSE /\ index' = index + 1
                  /\ iter' = iter + 1
                  /\ UNCHANGED <<loop_exit, pc>>
    /\ UNCHANGED <<query, exclude_track_ids, n, page_size, start_index, max_pages, result>>
    /\ UNCHANGED caller_vars

\* Lines 63-70: a page with tracks goes through the filter.
FetchPage(page) ==
    /\ pc = "loop"
    /\ iter < max_pages
    /\ page # <<>>
    /\ SendRequest
    /\ LET need == n - Len(selected)
           got == _pick_unique_tracks(page, exclude_ids, need)
           selected2 == selected \o got.picked
       IN /\ selected' = selected2
          /\ exclude_ids' = got.exclude_ids
          /\ IF Len(selected2) >= n
             THEN /\ loop_exit' = "reached"
                  /\ pc' = "after"
                  /\ UNCHANGED <<index, iter>>
             ELSE /\ index' = index + page_size
                  /\ iter' = iter + 1
                  /\ UNCHANGED <<loop_exit, pc>>
    /\ UNCHANGED <<query, exclude_track_ids, n, page_size, start_index, max_pages, result>>
    /\ UNCHANGED caller_vars

\* The upstream answers with a page of its choice, which is put on record.
FetchWatched ==
    \E page \in Pages(page_size) :
        /\ FetchPage(page)
        /\ upstream_obs' = ObservePage(upstream_obs, page)
        /\ UNCHANGED fetched

\* The upstream answers with a page of its choice, which is kept.
FetchKept ==
    \E page \in Pages(page_size) :
        /\ FetchPage(page)
        /\ fetched' = Append(fetched, page)
        /\ UNCHANGED upstream_obs

\* The upstream answers with a page of its choice.
FetchAny ==
    \E page \in Pages(page_size) :
        /\ FetchPage(page)
        /\ UNCHANGED <<upstream_obs, fetched>>

\* Mutant: when the pages are used up the loop starts over.
LoopEnds_StartsOver ==
    /\ pc = "loop"
    /\ iter >= max_pages
    /\ iter' = 0
    /\ index' = start_index
    /\ requests' = <<>>
    /\ UNCHANGED <<query, exclude_track_ids, n, page_size, start_index, max_pages,
                   exclude_ids, selected, result, loop_exit, pc, upstream_obs, fetched>>
    /\ UNCHANGED caller_vars

\* Line 49: range(max_pages) is used up.
LoopEnds ==
    /\ pc = "loop"
    /\ iter >= max_pages
    /\ loop_exit' = "budget"
    /\ pc' = "after"
    /\ UNCHANGED <<query, exclude_track_ids, n, page_size, start_index, max_pages,
                   exclude_ids, selected, index, iter, result, requests, upstream_obs, fetched>>
    /\ UNCHANGED caller_vars

\* Lines 78-93; an exception of format_tracks_response (line 84) leaves the
\* function.
Return ==
    /\ pc = "after"
    /\ result' = IF selected = <<>> THEN ErrorResult(MsgNoNewSongs)
                 ELSE IF Raises(format_tracks_response(selected))
                      THEN format_tracks_response(selected)
                      ELSE SuccessResult
    /\ pc' = "done"
    /\ UNCHANGED <<query, exclude_track_ids, n, page_size, start_index, max_pages,
                   exclude_ids, selected, index, iter, requests, loop_exit, upstream_obs, fetched>>
    /\ UNCHANGED caller_vars

\* ----------------------------------------------------------- MemoryStore
\* An optional member of the state: None, or a value.
Null == <<>>
Some(x) == <<x>>
TheValue(opt) == opt[1]

\* Lines 22-28 and 34-40: the state of a session not seen before.
EmptyState(now) ==
    [seen_track_ids |-> <<>>,
     last_context |-> Null,
     last_query |-> Null,
     next_index |-> 0,
     updated_at |-> now]

NoBlob == [exists |-> FALSE]

\* json.dumps of a state: the text of a JSON object with these members.
JsonDumps(value) == [kind |-> "object", members |-> value]

\* Other contents of a blob: the JSON text of an empty array, text that is
\* not JSON, and bytes that are not UTF-8.
JsonArrayText == [kind |-> "array"]
NotJson == [kind |-> "garbage"]
NotUtf8 == [kind |-> "binary"]

\* Line 30: download_as_text decodes the bytes, or raises UnicodeDecodeError.
Utf8Decodes(raw) == raw.kind # "binary"

\* json.loads: the value a JSON text denotes, whatever it is; any other text
\* raises json.JSONDecodeError.
JsonDecodes(raw) == raw.kind \in {"object", "array"}
JsonLoads(raw) == IF raw.kind = "object" THEN raw.members ELSE <<>>

\* Mutant: load returns the defaults whatever the blob holds.
Load_AlwaysDefaults(blob, now) == EmptyState(now)

\* Line 21: blob.exists(), the first request of load to the bucket.
Exists(blob) == blob.exists

\* Lines 30-40: download_as_text, the second request of load, on the blob as
\* it is when the request arrives, and json.loads of the text. An object
\* that is gone by then makes download_as_text raise NotFound.
Download(blob, now) ==
    IF ~blob.exists THEN Raised("NotFound")
    ELSE IF ~Utf8Decodes(blob.raw) THEN Raised("UnicodeDecodeError")
    ELSE IF JsonDecodes(blob.raw) THEN JsonLoads(blob.raw)
    ELSE EmptyState(now)

\* MemoryStore.load, lines 19-40, when nothing writes the blob between its two
\* requests.
Load(blob, now) ==
    IF ~Exists(blob) THEN EmptyState(now) ELSE Download(blob, now)

\* MemoryStore.save, lines 42-48: stamps the state and overwrites the blob.
Save(state, now) ==
    [exists |-> TRUE, raw |-> JsonDumps([state EXCEPT !.updated_at = now])]

\* ------------------------------------------------------------ the turn
Queries == {"genre:jazz", "calm"}

\* A turn starts by reading the session's state. The two requests of load
\* are one step here: the blob is written only by the save of the turn that
\* has turn_pc, so nothing can come between them.
TurnLoad ==
    /\ turn_pc = "idle"
    /\ clock < MaxSaves
    /\ mem' = Load(store, clock)
    /\ turn_pc' = "loaded"
    /\ overlapped' = (overlapped \/ \E i \in 1..Len(pending) : "found" \notin DOMAIN pending[i])
    /\ UNCHANGED <<driver_vars, store, clock, turn_kind, shown, chain_offset, chain_tried>>
    /\ UNCHANGED <<pending, intent_vars, format_vars, pick_vars>>

\* An intent search on the driver itself: search_music_api called with the
\* query of an intent, from the first page, without the tracks the session
\* has seen. The turns that call the tools are TurnTool and TurnReplay.
TurnIntent ==
    /\ turn_pc = "loaded"
    /\ \E q \in Queries :
          Enter(q, Range(mem.seen_track_ids), SessionN, page_size, 0, SessionMaxPages)
    /\ turn_kind' = "intent"
    /\ turn_pc' = "searching"
    /\ UNCHANGED <<store, clock, mem, shown, chain_offset, chain_tried>>
    /\ UNCHANGED <<race_vars, intent_vars, format_vars, pick_vars>>

\* "More": the last query again, from next_index, without the tracks the
\* session has seen.
TurnMore ==
    /\ turn_pc = "loaded"
    /\ mem.last_query # Null
    /\ Enter(TheValue(mem.last_query), Range(mem.seen_track_ids), SessionN, page_size,
             mem.next_index, SessionMaxPages)
    /\ turn_kind' = "more"
    /\ turn_pc' = "searching"
    /\ UNCHANGED <<store, clock, mem, shown, chain_offset, chain_tried>>
    /\ UNCHANGED <<race_vars, intent_vars, format_vars, pick_vars>>

\* The state after a successful result is applied to it.
Merge(state, res) ==
    [state EXCEPT !.seen_track_ids = state.seen_track_ids \o res.selected_track_ids,
                  !.last_query = Some(res.query),
                  !.last_context = IF "context" \in DOMAIN res THEN Some(res.context) ELSE Null,
                  !.next_index = res.next_index]

Offsets(reqs) == {reqs[i].index : i \in 1..Len(reqs)}

Max(S) == CHOOSE x \in S : \A y \in S : y <= x

\* The id counts with one more for every entry of ids.
RECURSIVE CountAll(_, _)
CountAll(counts, ids) ==
    IF ids = <<>> THEN counts
    ELSE CountAll([counts EXCEPT ![Head(ids)] = @ + 1], Tail(ids))

\* The frame of a call that has returned is gone.
DropFrame ==
    /\ pc' = "idle"
    /\ exclude_ids' = {}
    /\ selected' = <<>>
    /\ index' = 0
    /\ iter' = 0
    /\ result' = NoResult
    /\ requests' = <<>>
    /\ loop_exit' = "none"
    /\ upstream_obs' = NoPagesYet
    /\ fetched' = <<>>
    /\ query' = ""
    /\ exclude_track_ids' = {}
    /\ n' = 0
    /\ start_index' = 0
    /\ max_pages' = 0
    /\ UNCHANGED page_size

\* The turn is over: its loaded state and the call's frame are gone.
EndTurn ==
    /\ turn_pc' = "idle"
    /\ mem' = EmptyState(0)
    /\ turn_kind' = "none"
    /\ DropFrame

\* A successful search is merged into the state, which is saved.
TurnApply ==
    /\ turn_pc = "searching"
    /\ pc = "done"
    /\ result.status = "success"
    /\ store' = Save(Merge(mem, result), clock)
    /\ shown' = CountAll(shown, result.selected_track_ids)
    /\ chain_offset' = Max(Offsets(requests))
    /\ chain_tried' = IF turn_kind = "more"
                      THEN Max(Offsets(requests) \cup {chain_tried})
                      ELSE Max(Offsets(requests))
    /\ clock' = clock + 1
    /\ EndTurn
    /\ UNCHANGED <<race_vars, intent_vars, format_vars, pick_vars>>

\* A search that returned an error, or raised, leaves the stored state as it
\* is: the chain it continued, if any, goes on from the last successful call.
TurnDiscard ==
    /\ turn_pc = "searching"
    /\ pc = "done"
    /\ result.status \in {"error", "raised"}
    /\ chain_tried' = IF turn_kind = "more"
                      THEN Max(Offsets(requests) \cup {chain_tried})
                      ELSE chain_tried
    /\ clock' = clock + 1
    /\ turn_pc' = "idle"
    /\ pc' = "idle"
    /\ UNCHANGED <<query, exclude_track_ids, n, page_size, start_index, max_pages,
                   exclude_ids, selected, index, iter, result, requests, loop_exit,
                   upstream_obs, fetched, store, mem, turn_kind, shown, chain_offset>>
    /\ UNCHANGED <<race_vars, intent_vars, format_vars, pick_vars>>

\* ------------------------------------------------- turns that interleave
MaxPending == 1

\* A load that has been told the blob exists and has not downloaded it.
Found == [found |-> TRUE]

HasLoaded(entry) == "found" \notin DOMAIN entry

\* Another turn starts its load: blob.exists() is answered, and when there
\* is no blob the load returns the defaults.
TurnPark ==
    /\ turn_pc = "idle"
    /\ clock < MaxSaves
    /\ Len(pending) < MaxPending
    /\ pending' = Append(pending, IF Exists(store) THEN Found ELSE EmptyState(clock))
    /\ overlapped' = (overlapped \/ (~Exists(store) /\ \E i \in 1..Len(pending) : HasLoaded(pending[i])))
    /\ UNCHANGED <<driver_vars, session_vars, intent_vars, format_vars, pick_vars>>

\* Its download_as_text is answered, with the blob as it is by now: a turn
\* may have saved since blob.exists() was answered. The blob changes only
\* with a save, which ends a turn, so a download answered in the middle of
\* a turn gets what it gets before that turn's load.
TurnFetch ==
    /\ turn_pc = "idle"
    /\ \E i \in 1..Len(pending) :
          /\ ~HasLoaded(pending[i])
          /\ pending' = [pending EXCEPT ![i] = Download(store, clock)]
          /\ overlapped' = (overlapped \/ \E j \in 1..Len(pending) : j # i /\ HasLoaded(pending[j]))
    /\ UNCHANGED <<driver_vars, session_vars, intent_vars, format_vars, pick_vars>>

\* A turn that was held up goes on with the state it loaded.
TurnResume ==
    /\ turn_pc = "idle"
    /\ pending # <<>>
    /\ HasLoaded(Head(pending))
    /\ mem' = Head(pending)
    /\ pending' = Tail(pending)
    /\ turn_pc' = "loaded"
    /\ UNCHANGED <<driver_vars, store, clock, turn_kind, shown, chain_offset, chain_tried>>
    /\ UNCHANGED <<overlapped, intent_vars, format_vars, pick_vars>>

\* ---------------------------------------------------- intent operations
\* max_pages of search_music_api when the caller leaves it out, as the
\* intent operations do.
DefaultMaxPages == 5

IntentPageSize == 1

MsgNetwork == "Network or API error occurred."
\* Mutant: the message names no one.
MsgNoArtist_Anonymous(artist_name) == "Sorry, I couldn't find that artist."

MsgNoArtist(artist_name) ==
    "Sorry, I couldn't find an artist matching '" \o artist_name \o "'."

\* f'{field}:"{value}"'
FieldQuery(field, value) == field \o ":\"" \o value \o "\""

\* A part of the mapping of mood_to_genre.py.
MOOD_TO_GENRE == ("happy" :> "pop") @@ ("sad" :> "blues") @@ ("calm" :> "jazz")

\* str.strip().lower() and str.strip() on the values callers pass.
StripLower ==
    ("  Happy " :> "happy") @@ ("happy" :> "happy") @@ ("calm" :> "calm") @@
    ("Gloomy " :> "gloomy") @@ ("gloomy" :> "gloomy")
Strip == (" Hello " :> "Hello") @@ ("Hello" :> "Hello")

MoodsTyped == {"  Happy ", "calm", "Gloomy "}
TitlesTyped == {" Hello "}
GenresTyped == {"jazz", "pop"}
ArtistsTyped == {"Adel", "Adele", "Nobody"}

\* The artist-resolution endpoint: the name of the top match for a name it
\* knows; a canonical name resolves to itself.
TopMatch == ("Adel" :> "Adele") @@ ("Adele" :> "Adele")

\* What GET /search/artist?q=name can be answered with: a failure (transport
\* error, timeout, non-2xx status, undecodable body), a body that is not a
\* JSON object or whose first candidate is not one, no candidates, a top
\* candidate without a name, and the top match.
ResolverAnswers(name) ==
    {"failed", "malformed", "empty", "nameless"} \cup
    (IF name \in DOMAIN TopMatch THEN {"match"} ELSE {})

Context(type, value) == [type |-> type, value |-> value]

\* result["context"] = ...
WithContext(res, context) ==
    [k \in DOMAIN res \cup {"context"} |-> IF k = "context" THEN context ELSE res[k]]

\* An entry of the operation's log: a request to the "artist" or the
\* "search" endpoint and how it was answered, or the "return" of a driver
\* call on q with a status.
UpstreamCall(endpoint, q, outcome) == [endpoint |-> endpoint, q |-> q, outcome |-> outcome]

\* The driver call that has returned: its requests, all answered but the
\* last one when it failed or its body made the call raise, and its return.
DriverCalls ==
    [i \in 1..Len(requests) |->
        UpstreamCall("search", requests[i].q,
                     IF i = Len(requests) /\ loop_exit \in {"failed", "raised"}
                     THEN loop_exit ELSE "ok")]
    \o <<UpstreamCall("return", query, result.status)>>

\* A call of the driver from an intent operation: max_pages is left out.
SearchFrom(q, excl, want, size, start, context, at) ==
    /\ Enter(q, excl, want, size, start, DefaultMaxPages)
    /\ op_context' = context
    /\ op_pc' = at

\* The operation returns without a call of the driver.
ReturnEarly(value, calls) ==
    /\ op_result' = value
    /\ op_log' = calls
    /\ op_pc' = "done"
    /\ op_context' = Null
    /\ UNCHANGED driver_vars

\* search_music_api called as a public operation.
search_music_api(q, excl, want, size, start) ==
    /\ op' = "search_music_api"
    /\ op_input' = q
    /\ op_log' = <<>>
    /\ op_result' = NoResult
    /\ SearchFrom(q, excl, want, size, start, Null, "search")

\* Mutant: the context carries the name as typed.
search_by_artist_TypedContext(artist_name, excl, want, size, start) ==
    /\ op' = "search_by_artist"
    /\ op_input' = artist_name
    /\ \E answer \in ResolverAnswers(artist_name) :
        CASE answer = "failed" ->
                ReturnEarly(ErrorResult(MsgNetwork),
                            <<UpstreamCall("artist", artist_name, "failed")>>)
          [] answer = "malformed" ->
                ReturnEarly(Raised("AttributeError"),
                            <<UpstreamCall("artist", artist_name, "raised")>>)
          [] answer = "empty" ->
                ReturnEarly(ErrorResult(MsgNoArtist(artist_name)),
                            <<UpstreamCall("artist", artist_name, "empty")>>)
          [] answer \in {"nameless", "match"} ->
                LET corrected_name == IF answer = "match"
                                      THEN JStr(TopMatch[artist_name]) ELSE JNull
                IN /\ op_log' = <<UpstreamCall("artist", artist_name, answer)>>
                   /\ op_result' = NoResult
                   /\ SearchFrom(FieldQuery("artist", Str(corrected_name)),
                                 excl, want, size, start,
                                 Some(Context("artist", JStr(artist_name))), "search")

\* Lines 111-136, up to the call of the driver.
search_by_artist(artist_name, excl, want, size, start) ==
    /\ op' = "search_by_artist"
    /\ op_input' = artist_name
    /\ \E answer \in ResolverAnswers(artist_name) :
        CASE answer = "failed" ->
                ReturnEarly(ErrorResult(MsgNetwork),
                            <<UpstreamCall("artist", artist_name, "failed")>>)
          [] answer = "malformed" ->
                ReturnEarly(Raised("AttributeError"),
                            <<UpstreamCall("artist", artist_name, "raised")>>)
          [] answer = "empty" ->
                ReturnEarly(ErrorResult(MsgNoArtist(artist_name)),
                            <<UpstreamCall("artist", artist_name, "empty")>>)
          [] answer \in {"nameless", "match"} ->
                LET corrected_name == IF answer = "match"
                                      THEN JStr(TopMatch[artist_name]) ELSE JNull
                IN /\ op_log' = <<UpstreamCall("artist", artist_name, answer)>>
                   /\ op_result' = NoResult
                   /\ SearchFrom(FieldQuery("artist", Str(corrected_name)),
                                 excl, want, size, start,
                                 Some(Context("artist", corrected_name)), "search")

\* Lines 155-162.
search_by_genre(genre, excl, want, size, start) ==
    /\ op' = "search_by_genre"
    /\ op_input' = genre
    /\ op_log' = <<>>
    /\ op_result' = NoResult
    /\ SearchFrom(FieldQuery("genre", genre), excl, want, size, start,
                  Some(Context("genre", JStr(genre))), "search")

\* Lines 183-190.
search_by_mood(mood, excl, want, size, start) ==
    /\ op' = "search_by_mood"
    /\ op_input' = mood
    /\ op_log' = <<>>
    /\ op_result' = NoResult
    /\ SearchFrom(StripLower[mood], excl, want, size, start,
                  Some(Context("mood", JStr(StripLower[mood]))), "search")

\* Lines 254-264.
search_by_track(track_title, excl, want, size, start) ==
    /\ op' = "search_by_track"
    /\ op_input' = track_title
    /\ op_log' = <<>>
    /\ op_result' = NoResult
    /\ SearchFrom(FieldQuery("track", Strip[track_title]), excl, want, size, start,
                  Some(Context("track", JStr(Strip[track_title]))), "search")

\* Lines 213-223 and 227-233: the genre search when the mood has a genre, the
\* mood search when it has none.
search_by_mood_with_genre_fallback(mood, excl, want, size, start) ==
    LET mood_normalized == StripLower[mood] IN
    /\ op' = "search_by_mood_with_genre_fallback"
    /\ op_input' = mood
    /\ op_log' = <<>>
    /\ op_result' = NoResult
    /\ IF mood_normalized \in DOMAIN MOOD_TO_GENRE
       THEN SearchFrom(FieldQuery("genre", MOOD_TO_GENRE[mood_normalized]),
                       excl, want, size, start,
                       Some(Context("genre", JStr(MOOD_TO_GENRE[mood_normalized]))), "genre")
       ELSE SearchFrom(StripLower[mood_normalized], excl, want, size, start,
                       Some(Context("mood", JStr(StripLower[mood_normalized]))), "mood")

\* The arguments every operation passes on to the driver.
Args(excl, want, size, start) ==
    [exclude_track_ids |-> excl, n |-> want, page_size |-> size, start_index |-> start]

\* The operation of the given name on the given value.
Operation(name, value, excl, want, size, start) ==
    CASE name = "search_music_api" -> search_music_api(value, excl, want, size, start)
      [] name = "search_by_artist" -> search_by_artist(value, excl, want, size, start)
      [] name = "search_by_genre" -> search_by_genre(value, excl, want, size, start)
      [] name = "search_by_mood" -> search_by_mood(value, excl, want, size, start)
      [] name = "search_by_track" -> search_by_track(value, excl, want, size, start)
      [] name = "search_by_mood_with_genre_fallback" ->
            search_by_mood_with_genre_fallback(value, excl, want, size, start)

ValuesTyped(name) ==
    CASE name = "search_music_api" -> {"q"}
      [] name = "search_by_artist" -> ArtistsTyped
      [] name = "search_by_genre" -> GenresTyped
      [] name = "search_by_mood" -> MoodsTyped
      [] name = "search_by_track" -> TitlesTyped
      [] name = "search_by_mood_with_genre_fallback" -> MoodsTyped

\* The public functions of music_tools.py.
Operations ==
    {"search_music_api", "search_by_artist", "search_by_genre", "search_by_mood",
     "search_by_track", "search_by_mood_with_genre_fallback"}

\* The tools of the agent.
Tools ==
    {"search_by_mood_with_genre_fallback", "search_by_genre", "search_by_artist",
     "search_by_track"}

\* One of the named functions is called on a value the user typed.
Invoke(names) ==
    /\ op_pc = "idle"
    /\ \E name \in names :
       \E value \in ValuesTyped(name), excl \in {{}, {1}}, want \in 1..MaxN,
          start \in 0..MaxStartIndex :
          /\ Operation(name, value, excl, want, IntentPageSize, start)
          /\ op_typed' = value
          /\ op_args' = Args(excl, want, IntentPageSize, start)
    /\ op_more' = FALSE
    /\ op_left' = Null
    /\ UNCHANGED <<session_vars, race_vars, format_vars, pick_vars>>

\* The agent calls one of its tools.
Ask == Invoke(Tools)

\* A caller of the module calls one of its public functions that the agent
\* has no tool for: search_music_api or search_by_mood.
CallPublic == Invoke(Operations \ Tools)

\* The operation a context is replayed with.
OperationOf(context) ==
    CASE context.type = "artist" -> "search_by_artist"
      [] context.type = "genre" -> "search_by_genre"
      [] context.type = "mood" -> "search_by_mood"
      [] context.type = "track" -> "search_by_track"

\* "More": the operation of the last context on its value, without the
\* tracks the first call excluded and those of its batch, from its
\* next_index.
More ==
    /\ op_pc = "done"
    /\ ~op_more
    /\ op_result.status = "success"
    /\ "context" \in DOMAIN op_result
    /\ HasStr(op_result.context.value)
    /\ LET context == op_result.context IN
       Operation(OperationOf(context), context.value.str,
                 op_args.exclude_track_ids \cup Range(op_result.selected_track_ids),
                 n, page_size, op_result.next_index)
    /\ op_more' = TRUE
    /\ op_args' = Args(op_args.exclude_track_ids \cup Range(op_result.selected_track_ids),
                       n, page_size, op_result.next_index)
    /\ op_left' = Null
    /\ UNCHANGED <<op_typed, session_vars, race_vars, format_vars, pick_vars>>

\* What a driver call that has returned leaves behind.
Left == [exclude_ids |-> exclude_ids, selected |-> selected, index |-> index,
         loop_exit |-> loop_exit]

\* Mutant: the mood search goes on where the genre search stopped, without
\* the tracks it picked.
GenreReturns_CarriesOver ==
    /\ op_pc = "genre"
    /\ pc = "done"
    /\ IF Raises(result)
       THEN /\ op_result' = result
            /\ op_log' = op_log \o DriverCalls
            /\ op_pc' = "done"
            /\ UNCHANGED <<driver_vars, op_context, op_left>>
       ELSE IF result.status = "success" /\ result.tracks # <<>>
       THEN /\ op_result' = WithContext(result, TheValue(op_context))
            /\ op_log' = op_log \o DriverCalls
            /\ op_pc' = "done"
            /\ UNCHANGED <<driver_vars, op_context, op_left>>
       ELSE /\ op_log' = op_log \o DriverCalls
            /\ op_left' = Some(Left)
            /\ SearchFrom(StripLower[StripLower[op_input]], exclude_ids, n,
                          page_size, index,
                          Some(Context("mood", JStr(StripLower[StripLower[op_input]]))),
                          "mood")
            /\ UNCHANGED op_result
    /\ UNCHANGED <<op, op_input, op_typed, op_more, op_args>>
    /\ UNCHANGED <<session_vars, race_vars, format_vars, pick_vars>>

\* Mutant: the mood search follows the genre search whatever it returned.
GenreReturns_AlwaysFallsBack ==
    /\ op_pc = "genre"
    /\ pc = "done"
    /\ op_log' = op_log \o DriverCalls
    /\ SearchFrom(StripLower[StripLower[op_input]], exclude_track_ids, n,
                  page_size, start_index,
                  Some(Context("mood", JStr(StripLower[StripLower[op_input]]))),
                  "mood")
    /\ op_left' = Some(Left)
    /\ UNCHANGED <<op, op_input, op_typed, op_more, op_args, op_result>>
    /\ UNCHANGED <<session_vars, race_vars, format_vars, pick_vars>>

\* Mutant: the genre result is returned whatever it is.
GenreReturns_NeverFallsBack ==
    /\ op_pc = "genre"
    /\ pc = "done"
    /\ op_result' = IF Raises(result) THEN result
                    ELSE WithContext(result, TheValue(op_context))
    /\ op_log' = op_log \o DriverCalls
    /\ op_pc' = "done"
    /\ UNCHANGED <<driver_vars, op, op_input, op_typed, op_more, op_args, op_context, op_left>>
    /\ UNCHANGED <<session_vars, race_vars, format_vars, pick_vars>>

\* Lines 224-233: the genre search of the fallback has returned.
GenreReturns ==
    /\ op_pc = "genre"
    /\ pc = "done"
    /\ IF Raises(result)
       THEN /\ op_result' = result
            /\ op_log' = op_log \o DriverCalls
            /\ op_pc' = "done"
            /\ UNCHANGED <<driver_vars, op_context, op_left>>
       ELSE IF result.status = "success" /\ result.tracks # <<>>
       THEN /\ op_result' = WithContext(result, TheValue(op_context))
            /\ op_log' = op_log \o DriverCalls
            /\ op_pc' = "done"
            /\ UNCHANGED <<driver_vars, op_context, op_left>>
       ELSE /\ op_log' = op_log \o DriverCalls
            /\ op_left' = Some(Left)
            /\ SearchFrom(StripLower[StripLower[op_input]], exclude_track_ids, n,
                          page_size, start_index,
                          Some(Context("mood", JStr(StripLower[StripLower[op_input]]))),
                          "mood")
            /\ UNCHANGED op_result
    /\ UNCHANGED <<op, op_input, op_typed, op_more, op_args>>
    /\ UNCHANGED <<session_vars, race_vars, format_vars, pick_vars>>

\* Lines 127-128, 163-164, 191-192, 267-268: the driver has returned and the
\* operation returns its result with the context; an exception of the driver
\* leaves the operation.
OpReturns ==
    /\ op_pc \in {"search", "mood"}
    /\ pc = "done"
    /\ op_result' = IF Raises(result) \/ op_context = Null THEN result
                    ELSE WithContext(result, TheValue(op_context))
    /\ op_log' = op_log \o DriverCalls
    /\ op_pc' = "done"
    /\ UNCHANGED <<driver_vars, op, op_input, op_typed, op_more, op_args, op_context, op_left>>
    /\ UNCHANGED <<session_vars, race_vars, format_vars, pick_vars>>

\* Line 57: the body is JSON but not an object, and data.get raises
\* AttributeError, which line 72 does not catch.
FetchMalformed ==
    /\ pc = "loop"
    /\ iter < max_pages
    /\ SendRequest
    /\ result' = Raised("AttributeError")
    /\ loop_exit' = "raised"
    /\ pc' = "done"
    /\ UNCHANGED <<query, exclude_track_ids, n, page_size, start_index, max_pages,
                   exclude_ids, selected, index, iter, upstream_obs, fetched>>
    /\ UNCHANGED caller_vars

\* ------------------------------------------- turns that call the tools
\* The number of searches of a session whose turns call the tools.
MaxToolTurns == 2

\* The turn calls one of the agent's tools on a value the user typed,
\* without the tracks the session has seen, from the first page.
TurnTool ==
    /\ turn_pc = "loaded"
    /\ clock < MaxToolTurns
    /\ \E name \in Tools :
       \E value \in ValuesTyped(name) :
          /\ Operation(name, value, Range(mem.seen_track_ids), SessionN,
                       SessionPageSize, 0)
          /\ op_typed' = value
    /\ op_args' = Args(Range(mem.seen_track_ids), SessionN, SessionPageSize, 0)
    /\ op_more' = FALSE
    /\ op_left' = Null
    /\ turn_kind' = "intent"
    /\ turn_pc' = "searching"
    /\ UNCHANGED <<store, clock, mem, shown, chain_offset, chain_tried>>
    /\ UNCHANGED <<race_vars, format_vars, pick_vars>>

\* "More": the operation of last_context on its value, without the tracks
\* the session has seen, from next_index.
TurnReplay ==
    /\ turn_pc = "loaded"
    /\ clock < MaxToolTurns
    /\ mem.last_context # Null
    /\ HasStr(TheValue(mem.last_context).value)
    /\ LET context == TheValue(mem.last_context) IN
          /\ Operation(OperationOf(context), context.value.str,
                       Range(mem.seen_track_ids), SessionN, SessionPageSize,
                       mem.next_index)
          /\ op_typed' = context.value.str
    /\ op_args' = Args(Range(mem.seen_track_ids), SessionN, SessionPageSize,
                       mem.next_index)
    /\ op_more' = TRUE
    /\ op_left' = Null
    /\ turn_kind' = "more"
    /\ turn_pc' = "searching"
    /\ UNCHANGED <<store, clock, mem, shown, chain_offset, chain_tried>>
    /\ UNCHANGED <<race_vars, format_vars, pick_vars>>

\* The operation that has returned is gone.
DropOperation ==
    /\ op' = "none"
    /\ op_input' = ""
    /\ op_typed' = ""
    /\ op_more' = FALSE
    /\ op_pc' = "idle"
    /\ op_context' = Null
    /\ op_result' = NoResult
    /\ op_log' = <<>>
    /\ op_args' = Args({}, 0, 1, 0)
    /\ op_left' = Null

\* The tool returned a success result: it is merged into the state, which
\* is saved.
TurnToolApply ==
    /\ turn_pc = "searching"
    /\ op_pc = "done"
    /\ op_result.status = "success"
    /\ store' = Save(Merge(mem, op_result), clock)
    /\ clock' = clock + 1
    /\ EndTurn
    /\ DropOperation
    /\ UNCHANGED <<shown, chain_offset, chain_tried>>
    /\ UNCHANGED <<race_vars, format_vars, pick_vars>>

\* The tool returned an error result, or raised: nothing is saved. The
\* state the turn loaded and what the tool returned are kept.
TurnToolDiscard ==
    /\ turn_pc = "searching"
    /\ op_pc = "done"
    /\ op_result.status # "success"
    /\ clock' = clock + 1
    /\ turn_pc' = "idle"
    /\ DropFrame
    /\ UNCHANGED <<store, mem, turn_kind, shown, chain_offset, chain_tried>>
    /\ UNCHANGED <<race_vars, intent_vars, format_vars, pick_vars>>

\* No turn is suspended, no operation is in progress, nothing is formatted.
NoRace == pending = <<>> /\ overlapped = FALSE

NoOperation ==
    /\ op = "none"
    /\ op_input = ""
    /\ op_typed = ""
    /\ op_more = FALSE
    /\ op_pc = "idle"
    /\ op_context = Null
    /\ op_result = NoResult
    /\ op_log = <<>>
    /\ op_args = Args({}, 0, 1, 0)
    /\ op_left = Null

NoFormatting == fmt_tracks = <<>> /\ fmt_out = NoResult

NoPicking == pick_exclude_ids = {} /\ pick_log = <<>>

\* No call of search_music_api is in progress.
NoCall ==
    /\ query = "q"
    /\ exclude_track_ids = {}
    /\ n = 0
    /\ page_size = 1
    /\ start_index = 0
    /\ max_pages = 0
    /\ exclude_ids = {}
    /\ selected = <<>>
    /\ index = 0
    /\ iter = 0
    /\ pc = "idle"
    /\ result = NoResult
    /\ requests = <<>>
    /\ loop_exit = "none"
    /\ upstream_obs = NoPagesYet
    /\ fetched = <<>>

\* The session has no blob, and no turn is in progress.
NoTurn ==
    /\ store = NoBlob
    /\ clock = 0
    /\ turn_pc = "idle"
    /\ mem = EmptyState(0)
    /\ turn_kind = "none"
    /\ shown = [i \in Ids |-> 0]
    /\ chain_offset = None
    /\ chain_tried = None

Init == NoCall /\ NoTurn /\ NoRace /\ NoOperation /\ NoFormatting /\ NoPicking

Next == Call \/ FetchFails \/ FetchEmpty \/ FetchWatched \/ LoopEnds \/ Return

Spec == Init /\ [][Next]_vars

\* A call in progress goes on: requests.get returns or raises (timeout=10,
\* line 54), and the interpreter runs the statements that follow.
DriverStep == FetchFails \/ FetchEmpty \/ FetchWatched \/ LoopEnds \/ Return

LiveSpec == Init /\ [][Next]_vars /\ WF_vars(DriverStep)

\* One call of search_music_api with the pages it received kept.
ScanNext == Call \/ FetchFails \/ FetchEmpty \/ FetchKept \/ LoopEnds \/ Return

ScanSpec == Init /\ [][ScanNext]_vars

\* A session whose searches all use one page size.
SessionInit ==
    /\ query = "calm"
    /\ exclude_track_ids = {}
    /\ n = 1
    /\ page_size = SessionPageSize
    /\ start_index = 0
    /\ max_pages = 0
    /\ exclude_ids = {}
    /\ selected = <<>>
    /\ index = 0
    /\ iter = 0
    /\ pc = "idle"
    /\ result = NoResult
    /\ requests = <<>>
    /\ loop_exit = "none"
    /\ upstream_obs = NoPagesYet
    /\ fetched = <<>>
    /\ store = NoBlob
    /\ clock = 0
    /\ turn_pc = "idle"
    /\ mem = EmptyState(0)
    /\ turn_kind = "none"
    /\ shown = [i \in Ids |-> 0]
    /\ chain_offset = None
    /\ chain_tried = None
    /\ NoRace
    /\ NoOperation
    /\ NoFormatting
    /\ NoPicking

SessionNext ==
    \/ TurnLoad \/ TurnIntent \/ TurnMore \/ TurnApply \/ TurnDiscard
    \/ FetchFails \/ FetchEmpty \/ FetchAny \/ LoopEnds \/ Return

SessionSpec == SessionInit /\ [][SessionNext]_vars

\* Turns on one session with nothing that keeps a turn from loading the
\* state between the load and the save of another. search_music_api has no
\* state of its own, so the searches of two turns are run one after the
\* other.
RaceNext == SessionNext \/ TurnPark \/ TurnFetch \/ TurnResume

RaceSpec == SessionInit /\ [][RaceNext]_vars

\* The public operations, called once and replayed once by "more", against
\* an upstream that may answer with anything.
IntentNext ==
    \/ Ask \/ CallPublic \/ More \/ GenreReturns \/ OpReturns
    \/ FetchFails \/ FetchEmpty \/ FetchAny \/ FetchMalformed
    \/ LoopEnds \/ Return

IntentSpec == Init /\ [][IntentNext]_vars

\* Serialized turns of a session in which every search is a call of one of
\* the agent's tools, or the replay of the last context.
ToolTurnNext ==
    \/ TurnLoad \/ TurnTool \/ TurnReplay \/ TurnToolApply \/ TurnToolDiscard
    \/ GenreReturns \/ OpReturns
    \/ FetchFails \/ FetchEmpty \/ FetchAny \/ FetchMalformed
    \/ LoopEnds \/ Return

ToolTurnSpec == SessionInit /\ [][ToolTurnNext]_vars

\* ------------------------------------------------------ MemoryStore alone
MaxSeenLen == 1
MaxStoredIndex == 2
MaxStoreSaves == 1

\* The states a caller saves.
StoredStates ==
    {[seen_track_ids |-> seen, last_context |-> context, last_query |-> q,
      next_index |-> i, updated_at |-> 0] :
        seen \in UNION {[1..k -> Ids] : k \in 0..MaxSeenLen},
        context \in {Null, Some(Context("genre", JStr("jazz")))},
        q \in {Null, Some("genre:\"jazz\"")},
        i \in 0..MaxStoredIndex}

\* What the blob of a session can hold that no save has written: {}, an
\* object without seen_track_ids, [], text that is not JSON, and bytes that
\* are not UTF-8.
CorruptBlobs ==
    {[exists |-> TRUE, raw |-> raw] :
        raw \in {JsonDumps(<<>>), JsonDumps([next_index |-> 1]), JsonArrayText,
                 NotJson, NotUtf8}}

StoreInit ==
    /\ NoCall /\ NoRace /\ NoOperation /\ NoFormatting /\ NoPicking
    /\ store \in {NoBlob} \cup CorruptBlobs \cup {Save(state, 0) : state \in StoredStates}
    /\ clock = 1
    /\ turn_pc = "idle"
    /\ mem = EmptyState(0)
    /\ turn_kind = "none"
    /\ shown = [i \in Ids |-> 0]
    /\ chain_offset = None
    /\ chain_tried = None

\* MemoryStore.save(session_id, state) is called, by this process or by
\* another one, also between the two requests of a load.
SaveSession ==
    /\ turn_pc \in {"idle", "found"}
    /\ clock <= MaxStoreSaves
    /\ \E state \in StoredStates : store' = Save(state, clock)
    /\ clock' = clock + 1
    /\ UNCHANGED <<driver_vars, turn_pc, mem, turn_kind, shown, chain_offset, chain_tried>>
    /\ UNCHANGED <<race_vars, intent_vars, format_vars, pick_vars>>

\* The blob is removed: retention and expiry are a policy of the bucket.
BlobExpires ==
    /\ turn_pc \in {"idle", "found"}
    /\ store.exists
    /\ store' = NoBlob
    /\ UNCHANGED <<driver_vars, clock, turn_pc, mem, turn_kind, shown, chain_offset, chain_tried>>
    /\ UNCHANGED <<race_vars, intent_vars, format_vars, pick_vars>>

\* MemoryStore.load(session_id) is called, lines 19-28: blob.exists() is
\* answered, and without a blob the defaults are returned.
LoadExists ==
    /\ turn_pc = "idle"
    /\ IF Exists(store)
       THEN turn_pc' = "found" /\ UNCHANGED mem
       ELSE turn_pc' = "loaded" /\ mem' = EmptyState(clock)
    /\ UNCHANGED <<driver_vars, store, clock, turn_kind, shown, chain_offset, chain_tried>>
    /\ UNCHANGED <<race_vars, intent_vars, format_vars, pick_vars>>

\* Lines 30-40: download_as_text is answered and load returns.
LoadDownload ==
    /\ turn_pc = "found"
    /\ mem' = Download(store, clock)
    /\ turn_pc' = "loaded"
    /\ UNCHANGED <<driver_vars, store, clock, turn_kind, shown, chain_offset, chain_tried>>
    /\ UNCHANGED <<race_vars, intent_vars, format_vars, pick_vars>>

StoreNext == SaveSession \/ BlobExpires \/ LoadExists \/ LoadDownload

StoreSpec == StoreInit /\ [][StoreNext]_vars

\* ------------------------------------------- format_tracks_response alone
MaxFormatLen == 2

\* The values a track can have for each key of a row.
FieldValues(key) ==
    CASE key = "title" -> {JNull, JStr("Hello")}
      [] key = "artist" -> {JNull, JDict(<<>>), JDict([name |-> JNull]),
                             JDict([name |-> JStr("Adele")])}
      [] key = "link" -> {JNull, JStr("https://www.deezer.com/track/1")}

\* The tracks in which each of title, artist and link is absent, null or
\* present, artist.name included.
FormatTracks ==
    UNION {{t \in [keys -> UNION {FieldValues(k) : k \in keys}] :
                \A k \in keys : t[k] \in FieldValues(k)} :
           keys \in SUBSET {"title", "artist", "link"}}

FormatInit ==
    /\ NoCall /\ NoTurn /\ NoRace /\ NoOperation /\ NoPicking
    /\ fmt_tracks \in UNION {[1..k -> FormatTracks] : k \in 0..MaxFormatLen}
    /\ fmt_out = NoResult

\* format_tracks_response(fmt_tracks) is called.
Format ==
    /\ fmt_out = NoResult
    /\ fmt_out' = format_tracks_response(fmt_tracks)
    /\ UNCHANGED <<driver_vars, session_vars, race_vars, intent_vars, fmt_tracks, pick_vars>>

FormatNext == Format

FormatSpec == FormatInit /\ [][FormatNext]_vars

\* ================================================================ claims
Done == pc = "done"
Success == Done /\ result.status = "success"
PagesFetched == Len(requests)
ResultIds == TrackIds(result.tracks)
ErrorKeys == {"status", "error_message"}

\* C2: a success result holds no track whose id was in exclude_track_ids at
\* call time, no two tracks with one id, and selected_track_ids lists the
\* returned tracks' ids in order.
C2_BatchFreshAndUnique ==
    Success =>
        /\ \A i \in 1..Len(result.tracks) : ResultIds[i] \notin exclude_track_ids
        /\ \A i, j \in 1..Len(result.tracks) : i # j => ResultIds[i] # ResultIds[j]
        /\ result.selected_track_ids = ResultIds

\* C2 witness: a success over two pages, where a page offered an excluded id
\* and the second page offered an id selected from the first.
C2_Witness ==
    /\ Success
    /\ PagesFetched = 2
    /\ ~upstream_obs.fresh
    /\ upstream_obs.repeated
    /\ exclude_track_ids # {}

\* C3 (as claimed): on success next_index = start_index + page_size * pages
\* fetched, however the loop ended.
C3_NextIndexJustPastLastPage ==
    Success => result.next_index = start_index + page_size * PagesFetched

\* C4: on success next_index >= start_index + page_size * pages fetched.
C4_NextIndexNotBehind ==
    Success => result.next_index >= start_index + page_size * PagesFetched

\* C4 witness: N tracks reached on the second page of a call.
C4_Witness == Success /\ PagesFetched = 2 /\ loop_exit = "reached" /\ start_index > 0

\* C6: a failed upstream request makes the call return the fixed error and
\* nothing else, whatever was selected before.
C6_FailureDiscardsAll ==
    (Done /\ loop_exit = "failed") =>
        /\ result = ErrorResult(MsgUnavailable)
        /\ DOMAIN result = ErrorKeys

\* C6 witness: the request of the second page fails after the first page
\* yielded a track.
C6_Witness == Done /\ loop_exit = "failed" /\ selected # <<>> /\ PagesFetched = 2

\* C7 (as claimed): an empty page ends the fetching; the call returns success with the
\* fewer-than-n tracks selected so far if there is one, the "no new songs"
\* error if there is none.
C7_EmptyPageStops ==
    loop_exit = "empty" =>
        /\ pc \in {"after", "done"}
        /\ PagesFetched = iter + 1
        /\ Done =>
            IF selected # <<>>
            THEN /\ result.status = "success"
                 /\ result.tracks = selected
                 /\ Len(result.tracks) < n
            ELSE result = ErrorResult(MsgNoNewSongs)

\* C8 (as claimed): with max_pages pages fetched and fewer than n tracks selected, the
\* call returns success with what was selected if there is one, an error if
\* there is none.
C8_BudgetExhausted ==
    (Done /\ loop_exit = "budget" /\ Len(selected) < n) =>
        /\ PagesFetched = max_pages
        /\ IF selected # <<>>
           THEN /\ result.status = "success"
                /\ result.tracks = selected
           ELSE /\ result.status = "error"
                /\ DOMAIN result = ErrorKeys

\* C9 (as claimed): a success result holds at least one and at most n tracks,
\* for every n.
C9_AtMostN ==
    Success => Len(result.tracks) >= 1 /\ Len(result.tracks) <= n

\* --------------------------------------------------------------- session
Seen == Range(Load(store, clock).seen_track_ids)

\* C1: between serialized turns the stored seen_track_ids holds exactly the
\* ids returned in the batches so far, and no id was returned twice.
C1_SeenIsUnionOfBatches ==
    turn_pc = "idle" =>
        /\ Seen = {i \in Ids : shown[i] > 0}
        /\ \A i \in Ids : shown[i] <= 1

\* C1 witness: three successful searches, the last a "more", have been
\* saved and every id has been shown.
C1_Witness ==
    /\ turn_pc = "idle"
    /\ clock = 3
    /\ chain_offset > 2 * page_size
    /\ Seen = Ids

\* C5 (as claimed): a "more" call requests the chain's query, and only at
\* offsets beyond every offset requested by the earlier calls of its chain.
C5_NoOffsetTwice ==
    (turn_pc = "searching" /\ turn_kind = "more") =>
        \A i \in 1..Len(requests) :
            /\ requests[i].index > chain_tried
            /\ requests[i].q = TheValue(mem.last_query)

\* C5 (amended): a "more" call requests the chain's query, and only at
\* offsets beyond every offset requested by the earlier calls of its chain
\* that returned success.
C5_NoOffsetOfSuccessTwice ==
    (turn_pc = "searching" /\ turn_kind = "more") =>
        \A i \in 1..Len(requests) :
            /\ requests[i].index > chain_offset
            /\ requests[i].q = TheValue(mem.last_query)

\* C5 witness: the third successful call of a chain fetches its second page,
\* after a "more" call of the chain that failed.
C5_Witness ==
    /\ turn_pc = "searching"
    /\ turn_kind = "more"
    /\ clock = 2
    /\ chain_offset >= page_size
    /\ chain_tried > chain_offset
    /\ PagesFetched = 2

\* ------------------------------------------------------ intent operations
OpDone == op_pc = "done"
Fallback == op = "search_by_mood_with_genre_fallback"
MoodGiven == StripLower[op_input]
GenreQueryOf(mood) == FieldQuery("genre", MOOD_TO_GENRE[mood])

\* The entries of the log that are requests to the upstream.
IsRequest(entry) == entry.endpoint \in {"artist", "search"}

\* The driver call on q returned the given status.
Returned(q, status) ==
    \E i \in 1..Len(op_log) :
        op_log[i] = UpstreamCall("return", q, status)

\* C11: when the mood of search_by_mood_with_genre_fallback has a genre and
\* the search on that genre returned success, that result is returned, with
\* the context ("genre", the mapped genre), and no request of the call had
\* the plain mood as its query.
C11_GenreResultWins ==
    (OpDone /\ Fallback /\ MoodGiven \in DOMAIN MOOD_TO_GENRE
        /\ Returned(GenreQueryOf(MoodGiven), "success")) =>
        /\ op_result.status = "success"
        /\ op_result.tracks # <<>>
        /\ op_result.query = GenreQueryOf(MoodGiven)
        /\ op_result.context = Context("genre", JStr(MOOD_TO_GENRE[MoodGiven]))
        /\ op_result = WithContext(result, op_result.context)
        /\ \A i \in 1..Len(op_log) : op_log[i].q # MoodGiven

\* C11 witness: "  Happy " was given, and the search on genre:"pop" returned
\* two tracks after three pages.
C11_Witness ==
    /\ OpDone /\ Fallback
    /\ op_input = "  Happy "
    /\ Returned("genre:\"pop\"", "success")
    /\ Len(op_result.tracks) = 2
    /\ Len(op_log) = 4

\* C12: when the mood has no genre, or the search on its genre returned an
\* error, what search_by_mood_with_genre_fallback returns is the result of
\* the driver on the normalized mood, with the context ("mood", the
\* normalized mood).
C12_MoodResultOtherwise ==
    (OpDone /\ Fallback /\ ~Raises(op_result)
        /\ (MoodGiven \in DOMAIN MOOD_TO_GENRE =>
                Returned(GenreQueryOf(MoodGiven), "error"))) =>
        /\ query = MoodGiven
        /\ \A i \in 1..Len(requests) : requests[i].q = MoodGiven
        /\ op_result = WithContext(result, Context("mood", JStr(MoodGiven)))
        /\ op_log[Len(op_log)] = UpstreamCall("return", MoodGiven, op_result.status)

\* C12 witness: the search on genre:"pop" failed on its second page, and
\* the search on "happy" returned a track.
C12_Witness ==
    /\ OpDone /\ Fallback
    /\ op_input = "  Happy "
    /\ \E i \in 1..Len(op_log) : op_log[i] = UpstreamCall("search", "genre:\"pop\"", "failed")
    /\ Returned("genre:\"pop\"", "error")
    /\ op_result.status = "success"
    /\ op_result.context = Context("mood", JStr("happy"))

\* The resolver answered the operation's request with its top match.
Resolved ==
    /\ op = "search_by_artist"
    /\ op_pc \in {"search", "done"}
    /\ op_log[1] = UpstreamCall("artist", op_input, "match")

\* C13: when the resolver maps the name given to a canonical name, the
\* track requests of search_by_artist carry the canonical name and so does
\* the context of its result; a "more" that replays the context is given
\* the canonical name, and none of its requests carries the name typed.
C13_CanonicalNamePropagates ==
    Resolved =>
        /\ query = FieldQuery("artist", TopMatch[op_input])
        /\ \A i \in 1..Len(requests) : requests[i].q = FieldQuery("artist", TopMatch[op_input])
        /\ (OpDone /\ ~Raises(op_result)) =>
                op_result.context = Context("artist", JStr(TopMatch[op_input]))
        /\ op_more =>
             /\ op_input = TopMatch[op_typed]
             /\ op_typed # TopMatch[op_typed] =>
                    \A i \in 1..Len(op_log) :
                        /\ op_log[i].q # op_typed
                        /\ op_log[i].q # FieldQuery("artist", op_typed)

\* C13 witness: "Adel" was typed, and the "more" after it has returned a
\* track of artist:"Adele".
C13_Witness ==
    /\ Resolved /\ OpDone /\ op_more
    /\ op_typed = "Adel"
    /\ op_result.status = "success"
    /\ op_result.query = "artist:\"Adele\""
    /\ start_index > 0

\* C14: when the resolver has no candidate, search_by_artist returns an
\* error whose message names the value it was given, and sends no track
\* request.
C14_NoCandidateNoSearch ==
    (OpDone /\ op = "search_by_artist"
        /\ op_log[1] = UpstreamCall("artist", op_input, "empty")) =>
        /\ op_result.status = "error"
        /\ op_result.error_message =
              "Sorry, I couldn't find an artist matching '" \o op_input \o "'."
        /\ DOMAIN op_result = ErrorKeys
        /\ Len(op_log) = 1

\* C14 witness: "Nobody" has no candidate.
C14_Witness ==
    /\ OpDone /\ op = "search_by_artist"
    /\ op_input = "Nobody"
    /\ op_log = <<UpstreamCall("artist", "Nobody", "empty")>>
    /\ op_result.status = "error"

FixedSentences == {MsgUnavailable, MsgNetwork}

\* A request that failed is the operation's last one.
FailedIsLast(i) ==
    \A j \in 1..Len(op_log) : j > i => ~IsRequest(op_log[j])

\* C15 (as claimed): in each of the six operations a request that failed is
\* the last request of the operation, which returns an error with a fixed
\* sentence.
C15_FailureEndsOperation ==
    OpDone =>
        \A i \in 1..Len(op_log) :
            (IsRequest(op_log[i]) /\ op_log[i].outcome = "failed") =>
                /\ FailedIsLast(i)
                /\ op_result.status = "error"
                /\ op_result.error_message \in FixedSentences

\* C15 (amended): the same, but for a failed request of the genre search of
\* search_by_mood_with_genre_fallback, which is followed by the requests of
\* the mood search only.
C15_FailureEndsDriverCall ==
    OpDone =>
        \A i \in 1..Len(op_log) :
            (IsRequest(op_log[i]) /\ op_log[i].outcome = "failed") =>
                IF Fallback /\ op_log[i].q # MoodGiven
                THEN /\ op_log[i + 1] = UpstreamCall("return", op_log[i].q, "error")
                     /\ \A j \in 1..Len(op_log) : j > i + 1 => op_log[j].q = MoodGiven
                     /\ \E j \in 1..Len(op_log) :
                            j > i /\ op_log[j].endpoint = "search"
                ELSE /\ FailedIsLast(i)
                     /\ op_result.status = "error"
                     /\ op_result.error_message \in FixedSentences

\* C15 witness: the second track request of search_by_artist failed.
C15_Witness ==
    /\ OpDone /\ op = "search_by_artist"
    /\ Len(op_log) = 4
    /\ op_log[3].outcome = "failed"
    /\ op_result.error_message = MsgUnavailable

\* C16: whatever the upstream answers, an operation returns a result whose
\* status is success or error.
C16_NoExceptionPropagates ==
    OpDone => op_result.status \in {"success", "error"}

\* ---------------------------------------------------------------- formatter
Formatted == fmt_out # NoResult

\* The value at the key, or at the key of the dict at the first key, is
\* absent or null.
Absent(track, key) == key \notin DOMAIN track \/ track[key] = JNull
AbsentName(track) ==
    \/ Absent(track, "artist")
    \/ Absent(track.artist.dict, "name")

\* C17: format_tracks_response does not raise; it returns the fixed sentence
\* exactly for the empty sequence, and otherwise one row per track, in
\* order, with "Unknown Title", "Unknown Artist" and "#" for a title, an
\* artist or artist name, and a link that is absent or null.
C17_FormatterNeverRaises ==
    Formatted =>
        /\ ~Raises(fmt_out)
        /\ (fmt_out.text = MsgNoSongs) <=> (fmt_tracks = <<>>)
        /\ Len(fmt_out.rows) = Len(fmt_tracks)
        /\ \A i \in 1..Len(fmt_tracks) :
            LET track == fmt_tracks[i]
                row == fmt_out.rows[i]
            IN /\ row.title = IF Absent(track, "title") THEN "Unknown Title"
                              ELSE track.title.str
               /\ row.artist = IF AbsentName(track) THEN "Unknown Artist"
                               ELSE track.artist.dict.name.str
               /\ row.link = IF Absent(track, "link") THEN "#" ELSE track.link.str

\* -------------------------------------------------------------- MemoryStore
\* A save has written the blob.
Saved == \E state \in StoredStates, now \in 0..MaxStoreSaves : store = Save(state, now)

DefaultKeys == {"seen_track_ids", "last_context", "last_query", "next_index", "updated_at"}

\* C18: load does not raise; it returns the empty defaults when the blob is
\* absent or is not what a save has written, and the state saved when there
\* is one.
C18_LoadAlwaysUsable ==
    turn_pc = "loaded" =>
        /\ ~Raises(mem)
        /\ DOMAIN mem = DefaultKeys
        /\ ~Saved =>
            /\ mem.seen_track_ids = <<>>
            /\ mem.last_context = Null
            /\ mem.next_index = 0
        /\ \A state \in StoredStates, now \in 0..MaxStoreSaves :
              store = Save(state, now) => mem = [state EXCEPT !.updated_at = now]

\* ------------------------------------------------------------ error turns
Stored == Load(store, clock)

\* The search of a turn failed: the artist was not resolved (the resolver
\* had no candidate, or its request failed), or the last call of the driver
\* ended on a request that failed, or ended with no track selected.
FailedSearch ==
    /\ op_log # <<>>
    /\ IF op_log[Len(op_log)].endpoint = "artist"
       THEN op_log[Len(op_log)].outcome \in {"empty", "failed"}
       ELSE loop_exit = "failed" \/ (loop_exit # "raised" /\ selected = <<>>)

\* The stored state is the state the turn loaded.
StoredAsLoaded(blob, now) ==
    /\ Load(blob, now).seen_track_ids = mem.seen_track_ids
    /\ Load(blob, now).last_context = mem.last_context
    /\ Load(blob, now).last_query = mem.last_query
    /\ Load(blob, now).next_index = mem.next_index

\* The step that ends a turn whose tool has returned.
TurnEnds == turn_pc = "searching" /\ turn_pc' = "idle"

\* C19: a tool called in a turn returns status=error exactly when its
\* search failed (no results, artist not resolved, transport failure); the
\* error result has no member but status, error_message and context, and the
\* turn it ends leaves seen_track_ids, last_context, last_query and
\* next_index as the turn loaded them, so that a "more" is always the replay
\* of the stored context from the stored next_index without the stored ids.
C19_ErrorLeavesState ==
    /\ [][TurnEnds =>
            /\ (FailedSearch <=> op_result.status = "error")
            /\ (op_result.status = "error" =>
                    /\ DOMAIN op_result \subseteq ErrorKeys \cup {"context"}
                    /\ StoredAsLoaded(store', clock'))]_vars
    /\ []((turn_pc = "idle" /\ op_result.status = "error") =>
                StoredAsLoaded(store, clock))
    /\ []((turn_pc = "searching" /\ turn_kind = "more" /\ op_more) =>
                /\ op_args.start_index = Stored.next_index
                /\ op_args.exclude_track_ids = Range(Stored.seen_track_ids)
                /\ op = OperationOf(TheValue(Stored.last_context)))

\* C19 witness: after a search that was saved, a "more" picked a track on
\* its first page and failed on the second; its error result carries the
\* context, and the stored next_index and ids are those of the first search.
C19_Witness ==
    /\ turn_pc = "idle"
    /\ turn_kind = "more"
    /\ op_result.status = "error"
    /\ "context" \in DOMAIN op_result
    /\ Len(op_log) = 3
    /\ store.exists
    /\ Stored.seen_track_ids # <<>>
    /\ Stored.next_index > 0
    /\ StoredAsLoaded(store, clock)

\* --------------------------------------------------- turns that interleave
ShownIds == {i \in Ids : shown[i] > 0}

\* C20: nothing keeps two turns apart. As long as no turn has loaded the
\* state between the load and the save of another, the stored seen ids are
\* the ids shown and none was shown twice; in any case the stored seen ids
\* were shown.
C20_SerializedTurnsKeepSeen ==
    turn_pc = "idle" =>
        /\ Seen \subseteq ShownIds
        /\ ~overlapped =>
            /\ Seen = ShownIds
            /\ \A i \in Ids : shown[i] <= 1

\* C20 witness: two turns loaded before either saved, the later save has
\* overwritten the earlier one and the stored seen ids lack an id that was
\* shown; a turn that loaded this state has searched and returns that id.
C20_Witness ==
    /\ overlapped
    /\ pending = <<>>
    /\ turn_pc = "searching"
    /\ Success
    /\ mem.seen_track_ids = Stored.seen_track_ids
    /\ mem.seen_track_ids # <<>>
    /\ \E i \in Range(result.selected_track_ids) :
          /\ shown[i] = 1
          /\ i \notin Seen

\* ------------------------------------------------ the filter on its own
MaxPickId == 2
MaxPickLen == 3
MaxPickNeed == 2
MaxPickCalls == 2

\* The candidate lists: tracks with an id, with "id": null and without the
\* key, repeated ids included.
PickTracks ==
    {[id |-> i] : i \in 1..MaxPickId} \cup {[id |-> None], [title |-> JStr("Untitled")]}

PickCandidates == UNION {[1..k -> PickTracks] : k \in 0..MaxPickLen}

\* A caller has a set of ids to exclude.
PickInit ==
    /\ NoCall /\ NoTurn /\ NoRace /\ NoOperation /\ NoFormatting
    /\ pick_exclude_ids \in SUBSET (1..MaxPickId)
    /\ pick_log = <<>>

\* _pick_unique_tracks(tracks, exclude_ids, need) is called on the caller's
\* set, which it changes in place.
Pick ==
    /\ Len(pick_log) < MaxPickCalls
    /\ \E tracks \in PickCandidates, need \in 0..MaxPickNeed :
          LET got == _pick_unique_tracks(tracks, pick_exclude_ids, need) IN
          /\ pick_exclude_ids' = got.exclude_ids
          /\ pick_log' = Append(pick_log, [tracks |-> tracks,
                                           n |-> need,
                                           before |-> pick_exclude_ids,
                                           picked |-> got.picked,
                                           after |-> got.exclude_ids])
    /\ UNCHANGED <<driver_vars, session_vars, race_vars, intent_vars, format_vars>>

PickNext == Pick

PickSpec == PickInit /\ [][PickNext]_vars

\* ------------------------------------------------- what the driver returns
\* The pages one after the other.
RECURSIVE Flatten(_)
Flatten(pages) == IF pages = <<>> THEN <<>> ELSE Head(pages) \o Flatten(Tail(pages))

\* The positions of a track sequence that hold a track with an id that is
\* not excluded and is on no earlier position.
Eligible(tracks, excl) ==
    {i \in 1..Len(tracks) :
        /\ TrackId(tracks[i]) # None
        /\ TrackId(tracks[i]) \notin excl
        /\ \A j \in 1..(i - 1) : TrackId(tracks[j]) # TrackId(tracks[i])}

\* The tracks on the k lowest of the given positions, in order.
RECURSIVE TakeAt(_, _, _)
TakeAt(tracks, positions, k) ==
    IF positions = {} \/ k <= 0 THEN <<>>
    ELSE LET i == CHOOSE x \in positions : \A y \in positions : x <= y
         IN <<tracks[i]>> \o TakeAt(tracks, positions \ {i}, k - 1)

FirstEligible(tracks, excl, k) == TakeAt(tracks, Eligible(tracks, excl), k)

\* ------------------------------------------------------- exact count
\* No two tracks of the page have the same id.
NoDuplicates(page) ==
    \A i, j \in 1..Len(page) : i # j => TrackId(page[i]) # TrackId(page[j])

\* The upstream never failed, and every page it returned held page_size or
\* more tracks, no two of a page with the same id.
NeverShortNoDuplicates ==
    /\ loop_exit \notin {"failed", "empty"}
    /\ \A k \in 1..Len(fetched) :
        /\ Len(fetched[k]) >= page_size
        /\ NoDuplicates(fetched[k])

EnoughOnFirstPage ==
    /\ fetched # <<>>
    /\ Cardinality(Eligible(fetched[1], exclude_track_ids)) >= n

\* The first n such tracks of the first page have no artist or an artist
\* that is an object: format_tracks_response (line 84) returns for them.
FirstNFormat ==
    LET first == FirstEligible(fetched[1], exclude_track_ids, n)
    IN \A k \in 1..Len(first) : ~RowRaises(first[k])

C21_FirstNOfScanned ==
    Success => result.tracks = FirstEligible(Flatten(fetched), exclude_track_ids, n)

\* C22: the k-th request of a call has limit = page_size and index =
\* start_index + (k - 1) * page_size, and a call that leaves the loop with
\* fewer than n tracks and fewer than max_pages requests had its last
\* request answered with no tracks or with a failure: after a page with
\* tracks it requested the next one.
C22_NextPageRequested ==
    /\ \A k \in 1..Len(requests) :
          /\ requests[k].limit = page_size
          /\ requests[k].index = start_index + (k - 1) * page_size
    /\ (pc \in {"after", "done"} /\ Len(selected) < n /\ Len(requests) < max_pages) =>
          loop_exit \in {"empty", "failed"}

\* C22 witness: the first page, of page_size = 2 tracks, gives one of the
\* n = 2 tracks asked for, and the second request is sent at start_index + 2
\* before the call returns.
C22_Witness ==
    /\ Success
    /\ n = 2
    /\ page_size = 2
    /\ Len(fetched) = 2
    /\ Len(fetched[1]) = 2
    /\ Len(FirstEligible(fetched[1], exclude_track_ids, n)) = 1
    /\ Len(requests) = 2
    /\ requests[1].index = start_index
    /\ requests[2].index = start_index + 2
    /\ Len(result.tracks) = 2

\* C23: a call never has more than max_pages requests sent, and a call that
\* has entered the loop returns, whatever the upstream answers.
C23_TerminatesWithinBudget ==
    /\ [](Len(requests) <= max_pages)
    /\ (pc = "loop") ~> (pc = "done")

\* C23 witness: every page was full and held only tracks that were seen or
\* repeated, and the call has returned after max_pages requests.
C23_Witness ==
    /\ Done
    /\ max_pages = MaxPages
    /\ Len(requests) = max_pages
    /\ loop_exit = "budget"
    /\ page_size = MaxPageSize
    /\ upstream_obs.full
    /\ upstream_obs.with_ids
    /\ selected = <<>>
    /\ result = ErrorResult(MsgNoNewSongs)

\* All but the last element.
Front(s) == SubSeq(s, 1, Len(s) - 1)

\* C24: once a request has been answered and n tracks are selected the call
\* is out of the loop and sends no request; for n >= 1 the loop was left
\* because n was reached, on the last page fetched: the pages before it hold
\* fewer than n of the tracks that can be selected.
C24_NoRequestAfterNth ==
    (requests # <<>> /\ Len(selected) >= n) =>
        /\ pc # "loop"
        /\ n >= 1 =>
            /\ loop_exit = "reached"
            /\ fetched # <<>>
            /\ Len(fetched) = Len(requests)
            /\ Len(FirstEligible(Flatten(Front(fetched)), exclude_track_ids, n)) < n
            /\ Len(FirstEligible(Flatten(fetched), exclude_track_ids, n)) = n

\* C24 witness: the first page holds the n = 2 tracks asked for and the call
\* has returned after one request, with a page of the budget unused.
C24_Witness ==
    /\ Success
    /\ n = 2
    /\ max_pages = 2
    /\ Len(requests) = 1
    /\ Len(result.tracks) = 2
    /\ loop_exit = "reached"

\* ---------------------------------------------------- what the filter does
PickedIds(call) == TrackIds(call.picked)

\* C25: a call of the filter returns no two tracks with one id and leaves
\* the exclusion set what it was plus the ids it returned; a second call on
\* the same set returns no track with an id the first call returned.
C25_PickedOnceAndExcluded ==
    /\ \A k \in 1..Len(pick_log) :
          LET call == pick_log[k]
              ids == PickedIds(call)
          IN /\ \A i, j \in 1..Len(ids) : i # j => ids[i] # ids[j]
             /\ call.after = call.before \cup Range(ids)
             /\ call.before \subseteq call.after
    /\ Len(pick_log) = 2 =>
          /\ pick_log[2].before = pick_log[1].after
          /\ Range(PickedIds(pick_log[2])) \cap Range(PickedIds(pick_log[1])) = {}
    /\ pick_log # <<>> => pick_exclude_ids = pick_log[Len(pick_log)].after

\* C25 witness: the first call got a list with an id twice and returned it
\* once; the second call got that id again, with a new one, and returned
\* only the new one.
C25_Witness ==
    /\ Len(pick_log) = 2
    /\ \E i, j \in 1..Len(pick_log[1].tracks) :
          /\ i < j
          /\ TrackId(pick_log[1].tracks[i]) # None
          /\ TrackId(pick_log[1].tracks[i]) = TrackId(pick_log[1].tracks[j])
          /\ TrackId(pick_log[1].tracks[i]) \in Range(PickedIds(pick_log[1]))
          /\ TrackId(pick_log[1].tracks[i]) \in Range(TrackIds(pick_log[2].tracks))
    /\ pick_log[2].picked # <<>>
    /\ pick_log[2].after # pick_log[1].after
    /\ pick_log[1].after # pick_log[1].before

\* C26: a call of the filter with any list, set and count returns at most
\* that many tracks, the first ones of the list that have an id which is not
\* in the set and not on an earlier position; no null id is returned or
\* added to the set.
C26_FirstNeedEligible ==
    \A k \in 1..Len(pick_log) :
        LET call == pick_log[k] IN
        /\ Len(call.picked) <= call.n
        /\ call.picked = FirstEligible(call.tracks, call.before, call.n)
        /\ None \notin Range(PickedIds(call))
        /\ None \notin call.after
        /\ call.tracks = <<>> => call.picked = <<>>

\* ------------------------------------------------------ the caller's ids
\* C27: no step of a call changes the caller's exclude_track_ids, whether
\* the call ends in success or in error; the ids selected are added to the
\* call's own set only, and leave the call in the result.
C27_CallersIdsUntouched ==
    /\ [][pc # "idle" => exclude_track_ids' = exclude_track_ids]_vars
    /\ [](exclude_ids = exclude_track_ids \cup Range(SelectedTrackIds(selected)))
    /\ [](Success => /\ Range(result.selected_track_ids) = exclude_ids \ exclude_track_ids
                     /\ Range(result.selected_track_ids) \cap exclude_track_ids = {})

\* C27 witness: a call given ids to exclude has selected tracks on two pages
\* and returned them; its own set has grown and the caller's has not.
C27_Witness ==
    /\ Success
    /\ exclude_track_ids # {}
    /\ PagesFetched = 2
    /\ Len(result.selected_track_ids) = 2
    /\ exclude_ids # exclude_track_ids
    /\ upstream_obs.repeated

\* ------------------------------------------- the fallback's second search
\* The mood search of the fallback is in progress, or has returned.
MoodStage ==
    /\ Fallback
    /\ op_pc \in {"mood", "done"}
    /\ op_context # Null
    /\ TheValue(op_context).type = "mood"

\* C28: the mood search of the fallback is a driver call with the
\* exclude_track_ids, n, page_size and start_index the operation was called
\* with: its requests start at that start_index, its set of excluded ids is
\* the given one plus what it selected itself, and the next_index of its
\* success is the given start_index plus a page for every page it went past.
C28_MoodSearchFromCallersArguments ==
    MoodStage =>
        /\ Args(exclude_track_ids, n, page_size, start_index) = op_args
        /\ \A k \in 1..Len(requests) :
              /\ requests[k].index = op_args.start_index + (k - 1) * op_args.page_size
              /\ requests[k].limit = op_args.page_size
        /\ exclude_ids = op_args.exclude_track_ids \cup Range(SelectedTrackIds(selected))
        /\ (op_pc = "done" /\ op_result.status = "success") =>
              /\ op_result.next_index = op_args.start_index + op_args.page_size * (iter + 1)
              /\ op_result.tracks = selected

\* C28 witness: the genre search picked a track, went on to the next page
\* and failed there; the mood search, called with ids to exclude and a
\* start_index above 0, has returned that track in its success.
C28_Witness ==
    /\ MoodStage
    /\ op_pc = "done"
    /\ op_result.status = "success"
    /\ op_left # Null
    /\ TheValue(op_left).loop_exit = "failed"
    /\ TheValue(op_left).selected # <<>>
    /\ TheValue(op_left).index > op_args.start_index
    /\ op_args.start_index > 0
    /\ op_args.exclude_track_ids # {}
    /\ Range(SelectedTrackIds(TheValue(op_left).selected))
          \cap Range(op_result.selected_track_ids) # {}

====
